---- MODULE Spec2Model ----
(***************************************************************************)
(* k-means clustering of cluster_data.py: the geometry helpers, the        *)
(* Clusters container and the make_clusters loop.                          *)
(*                                                                         *)
(* Numbers are held as integers in units of 1/Unit, where Unit is the      *)
(* least common multiple of 1..MaxPts: the input coordinates are whole     *)
(* numbers (multiples of Unit), so every mean of at most MaxPts of them is *)
(* an integer number of units and the division of coords_div is exact.     *)
(* A distance is kept as [sqrt |-> r], the square root of r; sqrt is       *)
(* strictly increasing, so distances compare as their radicands do.        *)
(* A point is its coordinate tuple; its label is its position in the input *)
(* sequence, and membership lists hold those positions.                    *)
(***************************************************************************)
EXTENDS Integers, Sequences, FiniteSets, TLC

\* ---------------------------------------------------------------- bounds
MaxPts == 3      \* longest input sequence
MaxX == 2        \* first coordinate ranges over the even numbers 0..2*MaxX
MaxNegK == 1     \* k ranges over -MaxNegK .. MaxPts + 1
MaxLen == 3      \* longest tuple handed to the geometry helpers on their own
MaxVal == 1      \* components of those tuples range over 0..MaxVal
RoundCap == 3    \* the count of finished rounds is kept up to this value

\* ---------------------------------------------------------------- numbers
Min(a, b) == IF a < b THEN a ELSE b

Max(a, b) == IF a < b THEN b ELSE a

RECURSIVE GCD(_, _)
GCD(a, b) == IF b = 0 THEN a ELSE GCD(b, a % b)

RECURSIVE LcmUpTo(_)
LcmUpTo(n) == IF n <= 1 THEN 1 ELSE (LcmUpTo(n - 1) * n) \div GCD(LcmUpTo(n - 1), n)

\* one whole number, in the units numbers are held in
Unit == LcmUpTo(MaxPts)

\* sys.float_info.max: above every distance the bounded inputs produce
float_max == [sqrt |-> 2147483647]

\* wrong comparison: <= where the code has <
dist_le(d0, d1) == d0.sqrt <= d1.sqrt

dist_lt(d0, d1) == d0.sqrt < d1.sqrt

\* ---------------------------------------------------------------- geometry
\* zip(coords0, coords1) stops at the shorter argument
ZipLen(coords0, coords1) == Min(Len(coords0), Len(coords1))

coords_add(coords0, coords1) ==
    [j \in 1..ZipLen(coords0, coords1) |-> coords0[j] + coords1[j]]

RECURSIVE SumSq(_, _, _)
SumSq(coords0, coords1, j) ==
    IF j = 0 THEN 0
    ELSE SumSq(coords0, coords1, j - 1)
             + (coords0[j] - coords1[j]) * (coords0[j] - coords1[j])

coords_distance(coords0, coords1) ==
    [sqrt |-> SumSq(coords0, coords1, ZipLen(coords0, coords1))]

coords_div(coords, n) == [j \in 1..Len(coords) |-> coords[j] \div n]

coords_zero(coords) == [j \in 1..Len(coords) |-> 0]

\* ---------------------------------------------------------------- state
VARIABLES
    points,              \* make_clusters argument: sequence of coordinates
    k,                   \* make_clusters argument
    pc,                  \* position in make_clusters
    centroid,            \* clusters._clusters[c].centroid, c in 1..Len
    members,             \* clusters._points[c]: list of input positions
    previous_centroids,  \* local of make_clusters
    i,                   \* position of the for-loop over points
    error,               \* exception that ended the run, "" when none
    rounds,              \* rounds of the while loop finished so far (saturating)
    ga, gb,              \* arguments of a stand-alone geometry call
    gpc,                 \* position of the stand-alone geometry call
    gres                 \* its result

vars == <<points, k, pc, centroid, members, previous_centroids, i, error,
          rounds, ga, gb, gpc, gres>>

geo_vars == <<ga, gb, gpc, gres>>

run_vars == <<points, k, pc, centroid, members, previous_centroids, i, error,
              rounds>>

\* ---------------------------------------------------------------- inputs
Dim == 2

\* second coordinate of the input points
Ys == {0, 1}

Coords == {<<2 * x * Unit, y * Unit>> : x \in 0..MaxX, y \in Ys}

PointSeqs == UNION {[1..n -> Coords] : n \in 0..MaxPts}

Ks == (-MaxNegK)..(MaxPts + 1)

\* ---------------------------------------------------------------- Clusters
\* Python's seq[0:stop]
SliceTo(seq, stop) ==
    LET n == Len(seq)
        s == IF stop < 0 THEN Max(n + stop, 0) ELSE Min(stop, n)
    IN  SubSeq(seq, 1, s)

\* the scan of Clusters.assign from cluster c on; best = 0 stands for None
RECURSIVE assign_scan(_, _, _, _, _)
assign_scan(cents, coords, c, best, best_distance) ==
    IF c > Len(cents) THEN best
    ELSE LET distance == coords_distance(cents[c], coords)
         IN  IF dist_lt(distance, best_distance)
             THEN assign_scan(cents, coords, c + 1, c, distance)
             ELSE assign_scan(cents, coords, c + 1, best, best_distance)

best_cluster(cents, coords) == assign_scan(cents, coords, 1, 0, float_max)

RECURSIVE coords_sum(_, _, _)
coords_sum(pts, plist, n) ==
    IF n = 0 THEN coords_zero(pts[plist[1]])
    ELSE coords_add(coords_sum(pts, plist, n - 1), pts[plist[n]])

\* wrong mean: divides by one more than the member count
calculate_centroid_off(pts, plist) ==
    coords_div(coords_sum(pts, plist, Len(plist)), Len(plist) + 1)

\* defined for a non-empty plist; the empty one is UpdateFault
calculate_centroid(pts, plist) ==
    coords_div(coords_sum(pts, plist, Len(plist)), Len(plist))

Empty(c) == members[c] = <<>>

PassDone == pc = "assign" /\ i > Len(points)

\* ---------------------------------------------------------------- make_clusters
Init ==
    /\ points = <<>>
    /\ k = 0
    /\ pc = "idle"
    /\ centroid = <<>>
    /\ members = <<>>
    /\ previous_centroids = <<>>
    /\ i = 1
    /\ error = ""
    /\ rounds = 0
    /\ ga = <<>> /\ gb = <<>> /\ gpc = "idle" /\ gres = <<>>

\* the caller invokes make_clusters(points, k)
Call ==
    /\ pc = "idle"
    /\ gpc = "idle"
    /\ points' \in PointSeqs
    /\ k' \in Ks
    /\ pc' = "start"
    /\ UNCHANGED <<centroid, members, previous_centroids, i, error, rounds, geo_vars>>

\* wrong seeding: one seed too few
ConstructShort ==
    /\ pc = "start"
    /\ centroid' = SliceTo(points, k - 1)
    /\ members' = [c \in 1..Len(centroid') |-> <<>>]
    /\ previous_centroids' = <<>>
    /\ i' = 1
    /\ pc' = "assign"
    /\ UNCHANGED <<points, k, error, rounds, geo_vars>>

Construct ==
    /\ pc = "start"
    /\ centroid' = SliceTo(points, k)
    /\ members' = [c \in 1..Len(centroid') |-> <<>>]
    /\ previous_centroids' = <<>>
    /\ i' = 1
    /\ pc' = "assign"
    /\ UNCHANGED <<points, k, error, rounds, geo_vars>>

Assign ==
    /\ pc = "assign"
    /\ i <= Len(points)
    /\ best_cluster(centroid, points[i]) # 0
    /\ members' = [members EXCEPT ![best_cluster(centroid, points[i])] =
                       Append(@, i)]
    /\ i' = i + 1
    /\ UNCHANGED <<points, k, pc, centroid, previous_centroids, error, rounds, geo_vars>>

\* best_points is still None: None.append raises
AssignFault ==
    /\ pc = "assign"
    /\ i <= Len(points)
    /\ best_cluster(centroid, points[i]) = 0
    /\ pc' = "fault"
    /\ error' = "AttributeError"
    /\ UNCHANGED <<points, k, centroid, members, previous_centroids, i, rounds, geo_vars>>

UpdateCentroids ==
    /\ PassDone
    /\ \A c \in 1..Len(members) : ~ Empty(c)
    /\ centroid' = [c \in 1..Len(centroid) |-> calculate_centroid(points, members[c])]
    /\ pc' = "compare"
    /\ UNCHANGED <<points, k, members, previous_centroids, i, error, rounds, geo_vars>>

\* wrong policy: an empty cluster keeps its centroid and the run goes on
UpdateKeep ==
    /\ PassDone
    /\ \E c \in 1..Len(members) : Empty(c)
    /\ centroid' = [c \in 1..Len(centroid) |->
                       IF Empty(c) THEN centroid[c]
                       ELSE calculate_centroid(points, members[c])]
    /\ pc' = "compare"
    /\ UNCHANGED <<points, k, members, previous_centroids, i, error, rounds, geo_vars>>

\* points[0] of an empty list raises; the clusters before it are updated
UpdateFault ==
    /\ PassDone
    /\ \E c \in 1..Len(members) : Empty(c)
    /\ centroid' = [c \in 1..Len(centroid) |->
                       IF \E b \in 1..c : Empty(b) THEN centroid[c]
                       ELSE calculate_centroid(points, members[c])]
    /\ pc' = "fault"
    /\ error' = "IndexError"
    /\ UNCHANGED <<points, k, members, previous_centroids, i, rounds, geo_vars>>

\* wrong test: leaves the loop whatever the centroids are
ConvergedAlways ==
    /\ pc = "compare"
    /\ pc' = "done"
    /\ UNCHANGED <<points, k, centroid, members, previous_centroids, i, error, rounds, geo_vars>>

Converged ==
    /\ pc = "compare"
    /\ centroid = previous_centroids
    /\ pc' = "done"
    /\ UNCHANGED <<points, k, centroid, members, previous_centroids, i, error, rounds, geo_vars>>

\* wrong loop: goes round again even when the centroids did not change
NextRoundAlways ==
    /\ pc = "compare"
    /\ previous_centroids' = centroid
    /\ members' = [c \in 1..Len(members) |-> <<>>]
    /\ i' = 1
    /\ rounds' = Min(rounds + 1, RoundCap)
    /\ pc' = "assign"
    /\ UNCHANGED <<points, k, centroid, error, geo_vars>>

\* wrong loop: the membership lists are not cleared
NextRoundNoClear ==
    /\ pc = "compare"
    /\ centroid # previous_centroids
    /\ previous_centroids' = centroid
    /\ i' = 1
    /\ pc' = "assign"
    /\ rounds' = Min(rounds + 1, RoundCap)
    /\ UNCHANGED <<points, k, centroid, members, error, geo_vars>>

NextRound ==
    /\ pc = "compare"
    /\ centroid # previous_centroids
    /\ previous_centroids' = centroid
    /\ members' = [c \in 1..Len(members) |-> <<>>]
    /\ i' = 1
    /\ pc' = "assign"
    /\ rounds' = Min(rounds + 1, RoundCap)
    /\ UNCHANGED <<points, k, centroid, error, geo_vars>>

Next ==
    \/ Call
    \/ Construct
    \/ Assign
    \/ AssignFault
    \/ UpdateCentroids
    \/ UpdateFault
    \/ Converged
    \/ NextRound

Spec == Init /\ [][Next]_vars

\* the run is sequential code: it keeps stepping until it returns or raises
FairSpec == Spec /\ WF_vars(Next)

\* ---------------------------------------------------------------- geometry calls
GeoTuples == UNION {[1..n -> 0..MaxVal] : n \in 0..MaxLen}

GeoInit ==
    /\ ga \in GeoTuples
    /\ gb \in GeoTuples
    /\ gpc = "call"
    /\ gres = <<>>
    /\ points = <<>> /\ k = 0 /\ pc = "idle" /\ centroid = <<>>
    /\ members = <<>> /\ previous_centroids = <<>> /\ i = 1
    /\ error = "" /\ rounds = 0

GeoDistance ==
    /\ gpc = "call"
    /\ gres' = [op |-> "coords_distance", outcome |-> "value",
                value |-> coords_distance(ga, gb)]
    /\ gpc' = "returned"
    /\ UNCHANGED <<ga, gb, run_vars>>

GeoAdd ==
    /\ gpc = "call"
    /\ gres' = [op |-> "coords_add", outcome |-> "value",
                value |-> coords_add(ga, gb)]
    /\ gpc' = "returned"
    /\ UNCHANGED <<ga, gb, run_vars>>

GeoNext ==
    \/ GeoDistance
    \/ GeoAdd

GeoSpec == GeoInit /\ [][GeoNext]_vars

\* ---------------------------------------------------------------- properties
InRange == 1 <= k /\ k <= Len(points)

Halted == pc \in {"done", "fault"}

\* the places (cluster, position) at which input point p is a member
Places(p) ==
    {cj \in UNION {{<<c, j>> : j \in 1..Len(members[c])} : c \in 1..Len(members)} :
        members[cj[1]][cj[2]] = p}

\* the membership lists one full assignment pass over pts[1..n] builds
RECURSIVE assign_all(_, _, _)
assign_all(pts, cents, n) ==
    IF n = 0 THEN [c \in 1..Len(cents) |-> <<>>]
    ELSE [assign_all(pts, cents, n - 1)
             EXCEPT ![best_cluster(cents, pts[n])] = Append(@, n)]

RECURSIVE IntSum(_, _)
IntSum(j, n) == IF n = 0 THEN 0 ELSE IntSum(j, n - 1) + points[n][j]

\* C1: after every complete assignment pass and in the returned value, each
\* input point is in exactly one membership list, exactly once.
C1_Completeness ==
    (InRange /\ (PassDone \/ pc \in {"compare", "done"}))
        => \A p \in 1..Len(points) : Cardinality(Places(p)) = 1

C1_Witness ==
    /\ pc = "done" /\ InRange /\ k >= 2 /\ rounds >= 2
    /\ \A p \in 1..Len(points) : Cardinality(Places(p)) = 1

\* C2: the returned state is a fixed point: the returned membership lists
\* are the nearest-centroid assignment against the returned centroids, and
\* each returned centroid is the mean of its returned members.
C2_FixedPoint ==
    pc = "done" =>
        /\ members = assign_all(points, centroid, Len(points))
        /\ \A c \in 1..Len(centroid) :
               centroid[c] = calculate_centroid(points, members[c])

C2_Witness ==
    /\ pc = "done" /\ k >= 2 /\ Len(points) > k /\ rounds >= 2
    /\ centroid # SliceTo(points, k)

C4_TieBreak ==
    pc = "assign" =>
        \A c \in 1..Len(members) : \A j \in 1..Len(members[c]) :
            LET p == points[members[c][j]]
                d == coords_distance(centroid[c], p).sqrt
            IN  \A b \in 1..Len(centroid) :
                    LET e == coords_distance(centroid[b], p).sqrt
                    IN  /\ e >= d
                        /\ (b < c => e # d)

C4_Witness ==
    /\ pc = "assign"
    /\ \E c \in 1..Len(members) : \E j \in 1..Len(members[c]) :
           \E b \in (c + 1)..Len(centroid) :
               /\ centroid[b] # centroid[c]
               /\ coords_distance(centroid[b], points[members[c][j]])
                      = coords_distance(centroid[c], points[members[c][j]])

\* C5: for 1 <= k <= len(points) the run starts from k clusters seeded with
\* the first k input coordinates and k empty membership lists, and the
\* number of clusters and of lists stays k.
C5_Seeded ==
    InRange =>
        /\ pc \notin {"idle", "start"} => Len(centroid) = k /\ Len(members) = k
        /\ (pc = "assign" /\ i = 1 /\ rounds = 0) =>
               \A c \in 1..k : centroid[c] = points[c] /\ members[c] = <<>>

C5_Witness ==
    /\ InRange /\ k = MaxPts /\ pc = "assign" /\ i = 1 /\ rounds = 0
    /\ \A c \in 1..k : centroid[c] = points[c] /\ members[c] = <<>>

\* C6: with k = 1 and a non-empty input the run converges to one cluster
\* whose centroid is the mean of all input points and whose membership
\* list holds every input point.
C6_Result ==
    /\ pc = "done"
    /\ Len(centroid) = 1
    /\ members = << [p \in 1..Len(points) |-> p] >>
    /\ Len(centroid[1]) = Dim
    /\ \A j \in 1..Dim :
           centroid[1][j] * Len(points) = IntSum(j, Len(points))

C6_SingleCluster == (k = 1 /\ Len(points) >= 1) ~> C6_Result

C6_Witness ==
    /\ pc = "done" /\ k = 1
    /\ points = << <<0, 0>>, <<2 * Unit, 0>>, <<4 * Unit, 0>> >>
    /\ centroid = << <<2 * Unit, 0>> >>
    /\ members = << <<1, 2, 3>> >>

\* C7: with len(points) < k the run fails with InsufficientPoints before
\* any assignment; it never clusters with fewer than k clusters.
C7_InsufficientPoints ==
    (k > Len(points) /\ pc \notin {"idle", "start"}) =>
        (pc = "fault" /\ error = "InsufficientPoints")

\* C8: with k <= 0 the run never returns a cluster set.
C8_InvalidK == k <= 0 => pc # "done"

\* C9: when a cluster's membership list is empty after an assignment pass,
\* update_centroids faults and the run aborts.
C9_EmptyClusterFaults ==
    [][(PassDone /\ \E c \in 1..Len(members) : Empty(c))
          => (pc' = "fault" /\ error' = "IndexError")]_vars

C9_Witness ==
    /\ pc = "fault" /\ error = "IndexError" /\ InRange
    /\ \E c \in 1..Len(members) : Empty(c)

\* C10: coords_distance and coords_add of two coordinates of different
\* lengths fail with DimensionMismatch.
C10_DimensionMismatch ==
    (gpc = "returned" /\ Len(ga) # Len(gb)) => gres.outcome = "DimensionMismatch"

====
